---- MODULE Spec2Model ----
(***************************************************************************)
(* Model of releaser: the version-string functions and replace_lines of   *)
(* releaser/utils.py and the changelog step of releaser/next_release.py.  *)
(*                                                                         *)
(* A Python str is a sequence of one-character strings; a str index is    *)
(* 0-based as in the source, so s[i] of the source is s[i + 1] here.      *)
(***************************************************************************)
EXTENDS Integers, Sequences, FiniteSets, TLC

VARIABLES
    release_name,   \* the release_name argument
    called,         \* utils function applied ("none" before the call)
    returned,       \* what that call returned
    fpath,          \* replace_lines: content of the file at fpath
    fpath_before,   \* replace_lines: its content when the call started
    changes,        \* replace_lines: the (substring_to_find, new_line) pairs
    end,            \* replace_lines: the end argument
    src_documentation,    \* add_release: the src_documentation argument
    changes_rst,          \* content of {src_documentation}/changes.rst
    changelog_file,       \* content of changes/{fname}, the change notes
    staged,               \* paths given to a successful 'git add'
    update_version_calls, \* release_name of every update_version call
    pc,                   \* "idle", "prompt" (blocked in input) or "exited"
    reprompts,            \* answers refused by the prompt in this run
    runs                  \* one record per add_release invocation

vfVars == <<release_name, called, returned>>
rlVars == <<fpath, fpath_before, changes, end>>
clVars == <<src_documentation, changes_rst, changelog_file, staged,
            update_version_calls, pc, reprompts, runs>>
vars == <<vfVars, rlVars, clVars>>

(***************************************************************************)
(* Bounds of the explored inputs.                                          *)
(***************************************************************************)
MaxTail == 3
MaxFileLines == 2
MaxChanges == 2
MaxBlocks == 2
MaxRuns == 2
MaxReprompts == 1

(***************************************************************************)
(* str helpers                                                             *)
(***************************************************************************)
None == -1

Min(S) == CHOOSE x \in S : \A y \in S : x <= y

\* s[:n] for 0 <= n
Prefix(s, n) == SubSeq(s, 1, n)

\* s[n:] for 0 <= n
Suffix(s, n) == SubSeq(s, n + 1, Len(s))

\* s.endswith(suffix)
endswith(s, suffix) ==
    /\ Len(s) >= Len(suffix)
    /\ SubSeq(s, Len(s) - Len(suffix) + 1, Len(s)) = suffix

\* s.startswith(prefix)
startswith(s, prefix) ==
    /\ Len(s) >= Len(prefix)
    /\ SubSeq(s, 1, Len(prefix)) = prefix

\* s.count(ch) for a one-character ch
count(s, ch) == Cardinality({i \in 1..Len(s) : s[i] = ch})

\* s.replace(old, new) for one-character old and new
replace(s, old, new) == [i \in 1..Len(s) |-> IF s[i] = old THEN new ELSE s[i]]

\* sub in s
contains(s, sub) ==
    \E i \in 0..(Len(s) - Len(sub)) : SubSeq(s, i + 1, i + Len(sub)) = sub

\* what \d matches
Digits == {"0", "1", "2", "3", "4", "5", "6", "7", "8", "9"}

(***************************************************************************)
(* utils.py: version-string functions                                      *)
(***************************************************************************)
short(rel_name) ==
    IF endswith(rel_name, <<".", "0">>)
    THEN Prefix(rel_name, Len(rel_name) - 2)
    ELSE rel_name

\* the pattern tag + '\d+' matches in s at 0-based index i
match_at(tag, s, i) ==
    /\ i + Len(tag) + 1 <= Len(s)
    /\ SubSeq(s, i + 1, i + Len(tag)) = tag
    /\ s[i + Len(tag) + 1] \in Digits

\* re.search(tag + '\d+', s): match.start() of the leftmost match, or None
re_search(tag, s) ==
    LET hits == {i \in 0..(Len(s) - 1) : match_at(tag, s, i)}
    IN  IF hits = {} THEN None ELSE Min(hits)

TAGS_a_first ==
    << <<"a">>, <<"r", "c">>, <<"c">>, <<"b", "e", "t", "a">>, <<"b">>,
       <<"a", "l", "p", "h", "a">> >>

\* the tags in the order the loop tries them
TAGS ==
    << <<"r", "c">>, <<"c">>, <<"b", "e", "t", "a">>, <<"b">>,
       <<"a", "l", "p", "h", "a">>, <<"a">> >>

RECURSIVE pretag_loop(_, _)
pretag_loop(name, k) ==
    IF k > Len(TAGS) THEN None
    ELSE LET match == re_search(TAGS[k], name)
         IN  IF match # None THEN match ELSE pretag_loop(name, k + 1)

pretag_pos(name) == pretag_loop(name, 1)

strip_pretags(name) ==
    LET pos == pretag_pos(name)
    IN  IF pos # None THEN Prefix(name, pos) ELSE name

isprerelease(name) == pretag_pos(name) # None

\* the failed assert of long_release_name
AssertionError == <<"AssertionError">>

long_release_name_append(name) ==
    LET dotcount == count(name, ".")
    IN  IF dotcount >= 2 THEN name
        ELSE IF dotcount # 1 THEN AssertionError
        ELSE name \o <<".", "0">>

long_release_name(name) ==
    LET dotcount == count(name, ".")
    IN  IF dotcount >= 2 THEN name
        ELSE IF dotcount # 1 THEN AssertionError
        ELSE LET pos == pretag_pos(name)
             IN  IF pos # None
                 THEN Prefix(name, pos) \o <<".", "0">> \o Suffix(name, pos)
                 ELSE name \o <<".", "0">>

relname2fname(name) ==
    LET short_version == short(strip_pretags(name))
    IN  <<"v", "e", "r", "s", "i", "o", "n", "_">>
        \o replace(short_version, ".", "_")
        \o <<".", "r", "s", "t", ".", "i", "n", "c">>

(***************************************************************************)
(* Release names given to the version-string functions: the beginning of   *)
(* a name followed by up to MaxTail fragments (digits, dots, tag words).   *)
(***************************************************************************)
Stems ==
    { <<>>, <<"1">>, <<"0", ".", "8">>, <<"1", ".", "0">>,
      <<"0", ".", "8", ".", "1">>, <<"1", ".", "0", ".", "0">>,
      <<"0", ".", "8", "a", "1">> }

Fragments ==
    { <<"0">>, <<"1">>, <<".">>, <<"r", "c">>, <<"c">>, <<"b", "e", "t", "a">>,
      <<"b">>, <<"a", "l", "p", "h", "a">>, <<"a">> }

RECURSIVE Tails(_)
Tails(n) ==
    IF n = 0 THEN {<<>>}
    ELSE LET S == Tails(n - 1) IN S \cup {s \o f : s \in S, f \in Fragments}

ReleaseNames == {c \o t : c \in Stems, t \in Tails(MaxTail)}

\* a returned value: a str, an index (or None) or a bool, by the function
NoValue == [str |-> <<>>, pos |-> None, bool |-> FALSE]

\* no file is patched
NoPatch ==
    /\ fpath = <<>>
    /\ fpath_before = <<>>
    /\ changes = <<>>
    /\ end = <<>>

\* a missing file, and the None of Python
Missing == <<"<missing>">>
PyNone == <<"None">>

\* add_release is not run
NoRelease ==
    /\ src_documentation = PyNone
    /\ changes_rst = Missing
    /\ changelog_file = Missing
    /\ staged = {}
    /\ update_version_calls = <<>>
    /\ pc = "idle"
    /\ reprompts = 0
    /\ runs = <<>>

InitVersion ==
    /\ release_name \in ReleaseNames
    /\ called = "none"
    /\ returned = NoValue
    /\ NoPatch
    /\ NoRelease

CallShort ==
    /\ called = "none"
    /\ called' = "short"
    /\ returned' = [NoValue EXCEPT !.str = short(release_name)]
    /\ UNCHANGED <<release_name, rlVars, clVars>>

CallPretagPos ==
    /\ called = "none"
    /\ called' = "pretag_pos"
    /\ returned' = [NoValue EXCEPT !.pos = pretag_pos(release_name)]
    /\ UNCHANGED <<release_name, rlVars, clVars>>

CallStripPretags ==
    /\ called = "none"
    /\ called' = "strip_pretags"
    /\ returned' = [NoValue EXCEPT !.str = strip_pretags(release_name)]
    /\ UNCHANGED <<release_name, rlVars, clVars>>

CallIsPrerelease ==
    /\ called = "none"
    /\ called' = "isprerelease"
    /\ returned' = [NoValue EXCEPT !.bool = isprerelease(release_name)]
    /\ UNCHANGED <<release_name, rlVars, clVars>>

CallLongReleaseName ==
    /\ called = "none"
    /\ called' = "long_release_name"
    /\ returned' = [NoValue EXCEPT !.str = long_release_name(release_name)]
    /\ UNCHANGED <<release_name, rlVars, clVars>>

CallRelname2fname ==
    /\ called = "none"
    /\ called' = "relname2fname"
    /\ returned' = [NoValue EXCEPT !.str = relname2fname(release_name)]
    /\ UNCHANGED <<release_name, rlVars, clVars>>

NextVersion ==
    \/ CallShort
    \/ CallPretagPos
    \/ CallStripPretags
    \/ CallIsPrerelease
    \/ CallLongReleaseName
    \/ CallRelname2fname

SpecVersion == InitVersion /\ [][NextVersion]_vars

(***************************************************************************)
(* Text files: a file's content is one str; readlines and writelines      *)
(***************************************************************************)
\* 0-based index of the first "\n" of s, or Len(s) without one
RECURSIVE first_newline(_, _)
first_newline(s, i) ==
    IF i >= Len(s) THEN Len(s)
    ELSE IF s[i + 1] = "\n" THEN i ELSE first_newline(s, i + 1)

\* f.readlines(), also str.splitlines(True) of a text whose only line
\* boundary is "\n": the lines with their line ends
RECURSIVE readlines(_)
readlines(s) ==
    IF s = <<>> THEN <<>>
    ELSE LET n == first_newline(s, 0)
             cut == IF n < Len(s) THEN n + 1 ELSE n
         IN  <<Prefix(s, cut)>> \o readlines(Suffix(s, cut))

\* f.writelines(lines) on a file opened with 'w'
RECURSIVE writelines(_)
writelines(lines) ==
    IF lines = <<>> THEN <<>> ELSE Head(lines) \o writelines(Tail(lines))

\* what str.strip() removes
Whitespace == {" ", "\t", "\n", "\r"}

RECURSIVE lstrip(_)
lstrip(s) ==
    IF s # <<>> /\ Head(s) \in Whitespace THEN lstrip(Tail(s)) ELSE s

RECURSIVE rstrip(_)
rstrip(s) ==
    IF s # <<>> /\ s[Len(s)] \in Whitespace
    THEN rstrip(Prefix(s, Len(s) - 1)) ELSE s

strip(s) == rstrip(lstrip(s))

(***************************************************************************)
(* utils.py: replace_lines                                                 *)
(***************************************************************************)
\* the inner loop from pair k on: cur is lines[i], line the line as read
RECURSIVE replace_line_first_wins(_, _, _, _, _)
replace_line_first_wins(line, cur, chg, e, k) ==
    IF k > Len(chg) THEN cur
    ELSE IF contains(line, chg[k][1]) /\ ~startswith(strip(line), <<"#">>)
    THEN chg[k][2] \o e
    ELSE replace_line_first_wins(line, cur, chg, e, k + 1)

RECURSIVE replace_line(_, _, _, _, _)
replace_line(line, cur, chg, e, k) ==
    IF k > Len(chg) THEN cur
    ELSE IF contains(line, chg[k][1]) /\ ~startswith(strip(line), <<"#">>)
    THEN replace_line(line, chg[k][2] \o e, chg, e, k + 1)
    ELSE replace_line(line, cur, chg, e, k + 1)

\* the content of the file after replace_lines(fpath, chg, e)
replace_lines(content, chg, e) ==
    LET lines == readlines(content)
    IN  writelines([i \in 1..Len(lines) |->
                       replace_line(lines[i], lines[i], chg, e, 1)])

(***************************************************************************)
(* Files and change lists given to replace_lines                           *)
(***************************************************************************)
LinePool ==
    { <<"v", "\n">>, <<"#", "v", "\n">>, <<" ", "#", "v", "x", "\n">>,
      <<"x", "\n">>, <<"v", " ", "x", "\n">>, <<"\n">> }

PairPool ==
    { << <<"v">>, <<"V">> >>, << <<"x">>, <<"X">> >>,
      << <<"v", " ", "x">>, <<"W">> >>, << <<"#">>, <<"H">> >> }

RECURSIVE SeqsUpTo(_, _)
SeqsUpTo(S, n) ==
    IF n = 0 THEN {<<>>}
    ELSE LET R == SeqsUpTo(S, n - 1) IN R \cup {Append(r, x) : r \in R, x \in S}

\* with and without the line end of the last line
FileContents ==
    LET whole == {writelines(ls) : ls \in SeqsUpTo(LinePool, MaxFileLines)}
    IN  whole \cup {Prefix(c, Len(c) - 1) : c \in whole \ {<<>>}}

Ends == { <<"\n">>, <<";", "\n">> }

InitPatch ==
    /\ release_name = <<>>
    /\ called = "none"
    /\ returned = NoValue
    /\ fpath \in FileContents
    /\ fpath_before = fpath
    /\ changes \in SeqsUpTo(PairPool, MaxChanges)
    /\ end \in Ends
    /\ NoRelease

CallReplaceLines ==
    /\ called = "none"
    /\ called' = "replace_lines"
    /\ fpath' = replace_lines(fpath, changes, end)
    /\ UNCHANGED <<release_name, returned, fpath_before, changes, end, clVars>>

NextPatch == CallReplaceLines

SpecPatch == InitPatch /\ [][NextPatch]_vars

(***************************************************************************)
(* utils.py: the operator prompt and echocall                              *)
(***************************************************************************)
\* what the operator may type at the prompt
Typed == {"", "y", "n", "Y", "N", "yes"}

\* str.lower() of what is typed
lower(typed) ==
    CASE typed = "Y" -> "y"
      [] typed = "N" -> "n"
      [] OTHER -> typed

\* yes() for an answer its loop accepts ('', 'y' or 'n')
yes(answer, default) == (IF answer = "" THEN default ELSE answer) = "y"

no_default_yes(answer) == ~yes(answer, "y")

\* no(msg), with its default 'n'
no(answer) == ~yes(answer, "n")

\* ' '.join(args) raises TypeError unless every item of args is a str
join_raises(args) == \E i \in 1..Len(args) : args[i].type # "str"

\* the one positional argument of echocall(['git', 'add', fpath,
\* changelog_file]): a list
git_add_args ==
    << [type |-> "list", items |-> <<"git", "add", "fpath", "changelog_file">>] >>

\* echocall(*args): "TypeError" from the print, else the command is run
echocall(args) == IF join_raises(args) THEN "TypeError" ELSE "called"

(***************************************************************************)
(* next_release.py                                                         *)
(***************************************************************************)
DEFAULT_CHANGELOG_INDEX_TEMPLATE_no_blank ==
    << "{title}", "\n", "{underline}", "\n",
       "I", "n", " ", "d", "e", "v", "e", "l", "o", "p", "m", "e", "n", "t",
       ".", "\n", "\n",
       ".", ".", " ", "i", "n", "c", "l", "u", "d", "e", ":", ":", " ",
       ".", "/", "c", "h", "a", "n", "g", "e", "s", "/", "{fname}", "\n",
       "\n", "\n" >>

\* a replacement field is one item of the template
DEFAULT_CHANGELOG_INDEX_TEMPLATE ==
    << "{title}", "\n", "{underline}", "\n", "\n",
       "I", "n", " ", "d", "e", "v", "e", "l", "o", "p", "m", "e", "n", "t",
       ".", "\n", "\n",
       ".", ".", " ", "i", "n", "c", "l", "u", "d", "e", ":", ":", " ",
       ".", "/", "c", "h", "a", "n", "g", "e", "s", "/", "{fname}", "\n",
       "\n", "\n" >>

\* template.format(title=..., underline=..., fname=...)
RECURSIVE format(_, _, _, _)
format(template, title, underline, fname) ==
    IF template = <<>> THEN <<>>
    ELSE LET item == Head(template)
             text == CASE item = "{title}" -> title
                       [] item = "{underline}" -> underline
                       [] item = "{fname}" -> fname
                       [] OTHER -> <<item>>
         IN  text \o format(Tail(template), title, underline, fname)

\* f"Version {short(release_name)}"
version_title(name) ==
    <<"V", "e", "r", "s", "i", "o", "n", " ">> \o short(name)

\* "=" * len(title)
underline_of(title) == [i \in 1..Len(title) |-> "="]

\* this_version, the rendered section
this_version(template, name) ==
    LET title == version_title(name)
    IN  format(template, title, underline_of(title), relname2fname(name))

already_contains_no_newline(lines, title) == lines[4] = title

\* lines[3] == title + '\n'
already_contains(lines, title) == lines[4] = title \o <<"\n">>

splice_at_end(lines, text) == lines \o readlines(text)

\* lines[3:3] = text.splitlines(True)
splice(lines, text) == Prefix(lines, 3) \o readlines(text) \o Suffix(lines, 3)

\* the file copied to the change notes of a release
template_rst_inc == <<"T", "B", "D", "\n">>

(***************************************************************************)
(* Release names, changelog indexes and change notes given to add_release  *)
(***************************************************************************)
ChangelogReleaseNames ==
    { <<"1", ".", "2">>, <<"1", ".", "2", ".", "0">>,
      <<"1", ".", "2", "r", "c", "1">>, <<"0", ".", "8">> }

HeaderLines == << <<"A", "\n">>, <<"B", "\n">>, <<"C", "\n">> >>

\* the section add_release wrote for release 0.8
OldSection == this_version(DEFAULT_CHANGELOG_INDEX_TEMPLATE, <<"0", ".", "8">>)

Blocks ==
    { <<"\n">>, <<"V", "e", "r", "s", "i", "o", "n", " ", "1", ".", "2", "\n">>,
      OldSection }

\* fewer than 3 lines, or the header and up to MaxBlocks blocks; with and
\* without the line end of the last line
ChangelogIndexes ==
    LET short_files == {writelines(Prefix(HeaderLines, n)) : n \in 0..2}
        full == {writelines(HeaderLines \o body) :
                    body \in SeqsUpTo(Blocks, MaxBlocks)}
    IN  short_files \cup full \cup {Prefix(c, Len(c) - 1) : c \in full}

ChangeNotes == {Missing, template_rst_inc, <<"*", " ", "f", "i", "x", "\n">>}

InitRelease ==
    /\ release_name \in ChangelogReleaseNames
    /\ called = "none"
    /\ returned = NoValue
    /\ NoPatch
    /\ src_documentation \in {PyNone, <<"d", "o", "c">>}
    /\ changes_rst \in ChangelogIndexes
    /\ changelog_file \in ChangeNotes
    /\ staged = {}
    /\ update_version_calls = <<>>
    /\ pc = "idle"
    /\ reprompts = 0
    /\ runs = <<>>

\* the record of an invocation that starts now
NewRun(check, ended, version_updated) ==
    [before |-> changes_rst, notes_before |-> changelog_file,
     check |-> check, answer |-> "none", ended |-> ended,
     version_updated |-> version_updated]

\* release_name += '-dev'
dev_name(name) == name \o <<"-", "d", "e", "v">>

\* add_release up to the prompt of update_changelog, or to its end when the
\* prompt is not reached.  chdir(build_dir) only changes the directory the
\* relative paths start from, and what is printed changes no file: neither
\* is part of the state.
AddRelease ==
    /\ pc \in {"idle", "exited"}
    /\ Len(runs) < MaxRuns
    /\ reprompts' = 0
    /\ UNCHANGED <<vfVars, rlVars, src_documentation, staged>>
    /\ IF src_documentation = PyNone
       THEN \* join(None, 'changes.rst') raises TypeError
            /\ pc' = "exited"
            /\ runs' = Append(runs, NewRun("none", "TypeError", FALSE))
            /\ UNCHANGED <<changes_rst, changelog_file, update_version_calls>>
       ELSE LET lines == readlines(changes_rst)
                title == version_title(release_name)
            IN  /\ changelog_file' = template_rst_inc
                /\ IF Len(lines) < 4
                   THEN \* lines[3] raises IndexError
                        /\ pc' = "exited"
                        /\ runs' = Append(runs,
                                       NewRun("none", "IndexError", FALSE))
                        /\ UNCHANGED <<changes_rst, update_version_calls>>
                   ELSE IF already_contains(lines, title)
                   THEN \* update_changelog returns, add_release goes on
                        /\ pc' = "exited"
                        /\ update_version_calls' =
                               Append(update_version_calls,
                                      dev_name(release_name))
                        /\ runs' = Append(runs,
                                       NewRun("present", "returned", TRUE))
                        /\ UNCHANGED changes_rst
                   ELSE /\ changes_rst' =
                               writelines(splice(lines,
                                   this_version(
                                       DEFAULT_CHANGELOG_INDEX_TEMPLATE,
                                       release_name)))
                        /\ pc' = "prompt"
                        /\ runs' = Append(runs,
                                       NewRun("spliced", "running", FALSE))
                        /\ UNCHANGED update_version_calls

\* this run's record with the answer and how the process ended
Answered(answer, ended, version_updated) ==
    [runs EXCEPT ![Len(runs)] =
        [@ EXCEPT !.answer = answer, !.ended = ended,
                  !.version_updated = version_updated]]

\* the operator types an answer at the prompt of no(); the rest of
\* update_changelog and of add_release follows an accepted answer
Answer ==
    /\ pc = "prompt"
    /\ \E typed \in Typed :
         LET answer == lower(typed)
         IN  IF answer \notin {"", "y", "n"}
             THEN \* "answer should be 'y', 'n', or <return>"
                  /\ reprompts < MaxReprompts
                  /\ reprompts' = reprompts + 1
                  /\ UNCHANGED <<vfVars, rlVars, src_documentation,
                                 changes_rst, changelog_file, staged,
                                 update_version_calls, pc, runs>>
             ELSE /\ pc' = "exited"
                  /\ UNCHANGED <<vfVars, rlVars, src_documentation,
                                 changes_rst, changelog_file, reprompts>>
                  /\ IF no(answer)
                     THEN \* exit(1)
                          /\ runs' = Answered(answer, "exit(1)", FALSE)
                          /\ UNCHANGED <<staged, update_version_calls>>
                     ELSE IF echocall(git_add_args) = "TypeError"
                     THEN /\ runs' = Answered(answer, "TypeError", FALSE)
                          /\ UNCHANGED <<staged, update_version_calls>>
                     ELSE /\ staged' = staged \cup {"fpath", "changelog_file"}
                          /\ update_version_calls' =
                                 Append(update_version_calls,
                                        dev_name(release_name))
                          /\ runs' = Answered(answer, "returned", TRUE)

NextRelease == AddRelease \/ Answer

SpecRelease == InitRelease /\ [][NextRelease]_vars

(***************************************************************************)
(* Vocabulary of the claims about the version-string functions             *)
(***************************************************************************)
\* the tags of a pre-release, in the order the specification lists them
PretagOrder ==
    << <<"r", "c">>, <<"c">>, <<"b", "e", "t", "a">>, <<"b">>,
       <<"a", "l", "p", "h", "a">>, <<"a">> >>

TagIndex == 1..6

\* start indices of every match of <tag><digits>, whatever the tag
AnyTagStarts(name) ==
    {i \in 0..(Len(name) - 1) :
        \E k \in TagIndex : match_at(PretagOrder[k], name, i)}

\* leftmost match start over all tags, or None
LeftmostAny(name) ==
    IF AnyTagStarts(name) = {} THEN None ELSE Min(AnyTagStarts(name))

\* tags that match somewhere in the name
TagsPresent(name) ==
    {k \in TagIndex :
        \E i \in 0..(Len(name) - 1) : match_at(PretagOrder[k], name, i)}

\* leftmost match start of the first tag, in the listed order, that matches
PrecedenceFirst(name) ==
    IF TagsPresent(name) = {} THEN None
    ELSE LET tag == PretagOrder[Min(TagsPresent(name))]
         IN  Min({i \in 0..(Len(name) - 1) : match_at(tag, name, i)})

TruncatedAt(name, pos) == IF pos = None THEN name ELSE Prefix(name, pos)

AllIn(s, S) == \A i \in 1..Len(s) : s[i] \in S

\* dot-separated integers
NumericCore(s) ==
    /\ Len(s) >= 1
    /\ AllIn(s, Digits \cup {"."})
    /\ s[1] # "." /\ s[Len(s)] # "."
    /\ \A i \in 1..(Len(s) - 1) : ~(s[i] = "." /\ s[i + 1] = ".")

\* a numeric core followed by at most one pre-release tag <tag><digits>
WellFormedName(name) ==
    \E p \in 1..Len(name) :
        /\ NumericCore(Prefix(name, p))
        /\ \/ p = Len(name)
           \/ \E k \in TagIndex :
                LET tag == PretagOrder[k]
                    rest == Suffix(name, p + Len(tag))
                IN  /\ startswith(Suffix(name, p), tag)
                    /\ Len(rest) >= 1
                    /\ AllIn(rest, Digits)

\* names that differ from name only in a trailing '.0' or in the pre-release
\* tag: its long and short forms, its final release, its other pre-releases
SameReleaseAs(name) ==
    LET pos == LeftmostAny(name)
        core == TruncatedAt(name, pos)
        tail == Suffix(name, Len(core))
    IN  IF ~WellFormedName(name) THEN {}
        ELSE {core}
             \cup {core \o PretagOrder[k] \o <<"1">> : k \in TagIndex}
             \cup (IF count(core, ".") <= 1
                   THEN {core \o <<".", "0">> \o tail} ELSE {})
             \cup (IF endswith(core, <<".", "0">>)
                   THEN {Prefix(core, Len(core) - 2) \o tail} ELSE {})

(***************************************************************************)
(* C7: relname2fname gives the same change-notes file name to any two      *)
(* release names that differ only in their pre-release tag or in a         *)
(* trailing '.0'.                                                          *)
(***************************************************************************)
C7_SameFileName ==
    called = "relname2fname" =>
        \A other \in SameReleaseAs(release_name) :
            relname2fname(other) = returned.str

(***************************************************************************)
(* C8 as claimed: pretag_pos returns the leftmost match start of           *)
(* <tag><digits> over all the tags (None without a match), and             *)
(* strip_pretags truncates the name there.                                 *)
(***************************************************************************)
C8_LeftmostOfAnyTag ==
    /\ called = "pretag_pos" => returned.pos = LeftmostAny(release_name)
    /\ called = "strip_pretags" =>
           returned.str = TruncatedAt(release_name, LeftmostAny(release_name))

(***************************************************************************)
(* C8 as amended: pretag_pos returns the leftmost match start of the       *)
(* first tag, in the order rc, c, beta, b, alpha, a, that matches anywhere *)
(* in the name (None without a match), which is the leftmost match over    *)
(* all tags when the name is a numeric core with at most one tag;          *)
(* strip_pretags truncates the name at that index.                         *)
(***************************************************************************)
C8_FirstTagInOrder ==
    /\ called = "pretag_pos" =>
           /\ returned.pos = PrecedenceFirst(release_name)
           /\ WellFormedName(release_name) =>
                  returned.pos = LeftmostAny(release_name)
    /\ called = "strip_pretags" =>
           /\ returned.str =
                  TruncatedAt(release_name, PrecedenceFirst(release_name))
           /\ WellFormedName(release_name) =>
                  returned.str =
                      TruncatedAt(release_name, LeftmostAny(release_name))

\* pretag_pos("0.8beta1") is the start of beta
C8_Witness ==
    /\ called = "pretag_pos"
    /\ release_name = <<"0", ".", "8", "b", "e", "t", "a", "1">>
    /\ returned.pos = 3

(***************************************************************************)
(* C9: long_release_name of a name with 1 or 2 dots has exactly 2 dots     *)
(* ('.0' inserted right before the detected pre-release tag, or appended   *)
(* without one) and is a fixed point of long_release_name; a name without  *)
(* a dot yields an error.                                                  *)
(***************************************************************************)
C9_LongFormFixedPoint ==
    called = "long_release_name" =>
        LET dots == count(release_name, ".")
            pos == pretag_pos(release_name)
        IN  /\ dots = 0 => returned.str = AssertionError
            /\ dots \in {1, 2} =>
                   /\ returned.str # AssertionError
                   /\ count(returned.str, ".") = 2
                   /\ long_release_name(returned.str) = returned.str
            /\ dots = 1 /\ pos # None =>
                   returned.str = Prefix(release_name, pos) \o <<".", "0">>
                                  \o Suffix(release_name, pos)
            /\ dots = 1 /\ pos = None =>
                   returned.str = release_name \o <<".", "0">>
            /\ dots = 2 => returned.str = release_name

\* long_release_name("0.8rc1") = "0.8.0rc1"
C9_Witness ==
    /\ called = "long_release_name"
    /\ release_name = <<"0", ".", "8", "r", "c", "1">>
    /\ returned.str = <<"0", ".", "8", ".", "0", "r", "c", "1">>

(***************************************************************************)
(* Vocabulary of the claims about update_changelog and add_release         *)
(***************************************************************************)
\* the current (last) invocation, once there is one with a directory given
Invoked == runs # <<>> /\ src_documentation # PyNone

Cur == runs[Len(runs)]

LinesBefore == readlines(Cur.before)

LinesNow == readlines(changes_rst)

\* the expected title, as a line of the file
TitleLine == version_title(release_name) \o <<"\n">>

\* a str of n '=' characters
Equals(n) == [i \in 1..n |-> "="]

\* the line '.. include:: ./changes/{fname}'
IncludeLine(fname) ==
    <<".", ".", " ", "i", "n", "c", "l", "u", "d", "e", ":", ":", " ",
      ".", "/", "c", "h", "a", "n", "g", "e", "s", "/">> \o fname \o <<"\n">>

\* the index had (at least) its 3-line header when the invocation started
HadHeader == Len(LinesBefore) >= 3

\* the line at index 3 was the expected title when the invocation started
HadTitle == Len(LinesBefore) >= 4 /\ LinesBefore[4] = TitleLine

\* the lines now between the header and the lines that followed it
InsertedLines == SubSeq(LinesNow, 4, Len(LinesNow) - Len(LinesBefore) + 3)

\* the index is the old one with section spliced in at index 3
SplicedIn(section) ==
    LinesNow = Prefix(LinesBefore, 3) \o section \o Suffix(LinesBefore, 3)

(***************************************************************************)
(* C1: two invocations in a row with the same release name, on an index    *)
(* with a 3-line header and with the operator confirming, splice once:     *)
(* the second finds the expected title at line index 3 and leaves the      *)
(* index as the first wrote it.                                            *)
(***************************************************************************)
C1_SecondRunFindsTitle ==
    ( /\ Len(runs) = 2
      /\ src_documentation # PyNone
      /\ Len(readlines(runs[1].before)) >= 3
      /\ runs[1].answer \in {"none", "y"} )
    => /\ runs[2].check = "present"
       /\ changes_rst = runs[2].before
       /\ Cardinality({r \in 1..2 : runs[r].check = "spliced"}) <= 1

\* C1 restricted to an index with at least one line after its header,
\* whatever the operator answers: the second invocation finds the title
C1_SecondRunFindsTitle_AfterHeader ==
    ( /\ Len(runs) = 2
      /\ src_documentation # PyNone
      /\ Len(readlines(runs[1].before)) >= 4 )
    => /\ runs[2].check = "present"
       /\ changes_rst = runs[2].before
       /\ Cardinality({r \in 1..2 : runs[r].check = "spliced"}) <= 1

(***************************************************************************)
(* C2 as claimed: when the line at index 3 already is the expected title,  *)
(* update_changelog changes neither the index nor an existing change-notes *)
(* file of the release, and stages nothing.                                *)
(***************************************************************************)
C2_NothingModified ==
    Invoked /\ HadTitle =>
        /\ changes_rst = Cur.before
        /\ Cur.notes_before # Missing => changelog_file = Cur.notes_before
        /\ staged = {}

(***************************************************************************)
(* C2 as amended: when the line at index 3 already is the expected title   *)
(* followed by a newline, update_changelog leaves the index unchanged and  *)
(* stages nothing, but the change-notes file of the release has been       *)
(* overwritten with a copy of changes/template.rst.inc.                    *)
(***************************************************************************)
C2_IndexUnchangedNotesReset ==
    Invoked /\ HadTitle =>
        /\ changes_rst = Cur.before
        /\ changelog_file = template_rst_inc
        /\ staged = {}
        /\ Cur.check = "present"

\* the title was there, and written release notes were lost
C2_Witness ==
    /\ Invoked /\ HadTitle
    /\ Cur.notes_before = <<"*", " ", "f", "i", "x", "\n">>
    /\ changelog_file = template_rst_inc
    /\ changes_rst = Cur.before

(***************************************************************************)
(* C3: for an index made of a 3-line header and zero or more sections      *)
(* whose line at index 3 is not the expected title, update_changelog       *)
(* writes back the first 3 lines, then the rendered section, then the      *)
(* lines from index 3 on, unchanged and in order.                          *)
(***************************************************************************)
C3_SplicedAfterHeader ==
    Invoked /\ HadHeader /\ ~HadTitle =>
        SplicedIn(readlines(this_version(DEFAULT_CHANGELOG_INDEX_TEMPLATE,
                                         release_name)))

\* C3 restricted to an index with at least one line after its header: the
\* section is spliced in at index 3
C3_SplicedAfterHeader_OneOrMore ==
    Invoked /\ Len(LinesBefore) >= 4 /\ ~HadTitle =>
        SplicedIn(readlines(this_version(DEFAULT_CHANGELOG_INDEX_TEMPLATE,
                                         release_name)))

(***************************************************************************)
(* C4 as claimed: the index is written before the operator is prompted;    *)
(* staging and the version update with the '-dev' name happen only after   *)
(* the operator answers 'y'; after 'n' or the empty answer the process     *)
(* ends with a non-zero status, the file written, nothing staged and no    *)
(* version update.                                                         *)
(***************************************************************************)
WrittenBeforePrompt ==
    pc = "prompt" =>
        /\ changes_rst # Cur.before
        /\ SplicedIn(InsertedLines)
        /\ InsertedLines[1] = TitleLine

DeclinedEndsRun ==
    \A r \in 1..Len(runs) :
        runs[r].answer \in {"n", ""} =>
            /\ runs[r].ended = "exit(1)"
            /\ runs[r].check = "spliced"
            /\ ~runs[r].version_updated
            /\ staged = {}

C4_GateBeforeStagingAndVersion ==
    /\ WrittenBeforePrompt
    /\ staged # {} => \E r \in 1..Len(runs) : runs[r].answer = "y"
    /\ \A r \in 1..Len(runs) :
           runs[r].version_updated => runs[r].answer = "y"
    /\ Len(update_version_calls) =
           Cardinality({r \in 1..Len(runs) : runs[r].version_updated})
    /\ DeclinedEndsRun

(***************************************************************************)
(* C4 as amended: the index is written before the operator is prompted;    *)
(* staging happens only after the operator answers 'y', and the version    *)
(* update with the '-dev' name only after a 'y' or when update_changelog   *)
(* returned without prompting because the title was already present;       *)
(* after 'n' or the empty answer the process ends with a non-zero status,  *)
(* the file written, nothing staged and no version update.                 *)
(***************************************************************************)
C4_GateUnlessAlreadyPresent ==
    /\ WrittenBeforePrompt
    /\ staged # {} => \E r \in 1..Len(runs) : runs[r].answer = "y"
    /\ \A r \in 1..Len(runs) :
           runs[r].version_updated =>
               runs[r].answer = "y" \/ runs[r].check = "present"
    /\ Len(update_version_calls) =
           Cardinality({r \in 1..Len(runs) : runs[r].version_updated})
    /\ \A i \in 1..Len(update_version_calls) :
           update_version_calls[i] = release_name \o <<"-", "d", "e", "v">>
    /\ DeclinedEndsRun

\* the operator gave the empty answer: the run ended in exit(1), the index
\* written
C4_Witness ==
    /\ Invoked
    /\ pc = "exited"
    /\ Cur.answer = ""
    /\ Cur.ended = "exit(1)"
    /\ changes_rst # Cur.before
    /\ staged = {}
    /\ update_version_calls = <<>>

\* the scenario of C5: release "1.2" added once to a header and one section
C5_Scenario ==
    /\ Len(runs) = 1
    /\ src_documentation # PyNone
    /\ release_name = <<"1", ".", "2">>
    /\ Cur.before = writelines(HeaderLines) \o OldSection

C5_Inserted(underline_length) ==
    C5_Scenario =>
        /\ Len(InsertedLines) >= 3
        /\ InsertedLines[1] =
               <<"V", "e", "r", "s", "i", "o", "n", " ", "1", ".", "2", "\n">>
        /\ InsertedLines[2] = Equals(underline_length) \o <<"\n">>
        /\ \E i \in 3..Len(InsertedLines) :
               InsertedLines[i] =
                   IncludeLine(<<"v", "e", "r", "s", "i", "o", "n", "_", "1",
                                 "_", "2", ".", "r", "s", "t", ".", "i", "n",
                                 "c">>)
        /\ LinesNow = HeaderLines \o InsertedLines \o readlines(OldSection)

(***************************************************************************)
(* C5 as claimed: on a changelog with a 3-line header and one version      *)
(* section, adding release "1.2" inserts a section titled "Version 1.2"    *)
(* with a 12-character underline that refers to version_1_2.rst.inc,       *)
(* immediately above the existing section.                                 *)
(***************************************************************************)
C5_Underline12 == C5_Inserted(12)

(***************************************************************************)
(* C5 as amended: on a changelog with a 3-line header and one version      *)
(* section, adding release "1.2" inserts a section titled "Version 1.2"    *)
(* with an 11-character underline (the length of the title) that refers    *)
(* to version_1_2.rst.inc, immediately above the existing section.         *)
(***************************************************************************)
C5_Underline11 == C5_Inserted(11)

C5_Witness == C5_Scenario /\ pc = "prompt"

(***************************************************************************)
(* C6 as claimed: a section inserted with the default template is the      *)
(* title line 'Version {short_version}', an underline of '=' of the        *)
(* title's length, a blank line, '.. include:: ./changes/{fname}' with     *)
(* fname = relname2fname(release_name), then blank lines only.             *)
(***************************************************************************)
SectionInserted == Invoked /\ Len(LinesBefore) >= 4 /\ ~HadTitle

C6_SectionFormat ==
    SectionInserted =>
        /\ Len(InsertedLines) >= 4
        /\ InsertedLines[1] = TitleLine
        /\ InsertedLines[2] = Equals(Len(TitleLine) - 1) \o <<"\n">>
        /\ InsertedLines[3] = <<"\n">>
        /\ InsertedLines[4] = IncludeLine(relname2fname(release_name))
        /\ \A i \in 5..Len(InsertedLines) : InsertedLines[i] = <<"\n">>

(***************************************************************************)
(* C6 as amended: a section inserted with the default template is the      *)
(* title line 'Version {short_version}', an underline of '=' of the        *)
(* title's length, a blank line, the line 'In development.', a blank       *)
(* line, '.. include:: ./changes/{fname}' with fname =                     *)
(* relname2fname(release_name), then two blank lines, and no other line.   *)
(***************************************************************************)
C6_SectionFormatInDevelopment ==
    SectionInserted =>
        InsertedLines =
            << TitleLine,
               Equals(Len(TitleLine) - 1) \o <<"\n">>,
               <<"\n">>,
               <<"I", "n", " ", "d", "e", "v", "e", "l", "o", "p", "m", "e",
                 "n", "t", ".", "\n">>,
               <<"\n">>,
               IncludeLine(relname2fname(release_name)),
               <<"\n">>,
               <<"\n">> >>

\* a section was inserted for 1.2.0, titled by the short version
C6_Witness ==
    /\ SectionInserted
    /\ release_name = <<"1", ".", "2", ".", "0">>
    /\ InsertedLines[1] =
           <<"V", "e", "r", "s", "i", "o", "n", " ", "1", ".", "2", "\n">>

(***************************************************************************)
(* Vocabulary of the claim about replace_lines                             *)
(***************************************************************************)
Max(S) == CHOOSE x \in S : \A y \in S : x >= y

\* the first character of the line that is no whitespace is '#'
IsCommentLine(line) ==
    \E i \in 1..Len(line) :
        /\ line[i] = "#"
        /\ \A j \in 1..(i - 1) : line[j] \in Whitespace

\* the pairs whose substring occurs in the line
PairsFound(line, chg) == {k \in 1..Len(chg) : contains(line, chg[k][1])}

ExpectedLine(line, chg, e) ==
    IF IsCommentLine(line) \/ PairsFound(line, chg) = {} THEN line
    ELSE chg[Max(PairsFound(line, chg))][2] \o e

(***************************************************************************)
(* C10: replace_lines writes back as many lines as it read, and line i is  *)
(* the original line if its stripped form starts with '#' or if no pair's  *)
(* substring occurs in it, and otherwise the replacement line plus the     *)
(* line ending of the last pair of the list whose substring occurs in the  *)
(* original line i.                                                        *)
(***************************************************************************)
C10_ReplaceLines ==
    called = "replace_lines" =>
        LET before == readlines(fpath_before)
            after == readlines(fpath)
        IN  /\ Len(after) = Len(before)
            /\ \A i \in 1..Len(before) :
                   after[i] = ExpectedLine(before[i], changes, end)

\* a line matched by two pairs got the later one, a comment line was kept
C10_Witness ==
    /\ called = "replace_lines"
    /\ fpath_before = <<"v", " ", "x", "\n", "#", "v", "\n">>
    /\ changes = << << <<"x">>, <<"X">> >>, << <<"v">>, <<"V">> >> >>
    /\ end = <<"\n">>
    /\ fpath = <<"V", "\n", "#", "v", "\n">>

====
